---- MODULE Spec2Model ----
(***************************************************************************)
(* DB20XX storage engine: the MySQL handler adapter (ha_db20xx.cc), the    *)
(* Masstree index wrapper (index.h) and, behind them, the multi-version    *)
(* row store (Table, VersionChain, TransactionContext).                    *)
(*                                                                         *)
(* ha_db20xx.cc and index.h are translated from the source.  Table,        *)
(* VersionChain and TransactionContext are declared in headers that are    *)
(* not part of the source tree at hand (transaction.h, version_chain.h,    *)
(* table.h); they are modelled from sections 3, 4.2, 4.3, 4.4 and 6 of the *)
(* specification.                                                          *)
(*                                                                         *)
(* Every handler call and every handlerton callback is one atomic action.  *)
(* The host (the MySQL server) is the environment: it opens a statement    *)
(* with external_lock, runs handler calls, delivers the statement-level    *)
(* commit/rollback callback to an engine registered at statement level,    *)
(* closes the statement with external_lock(F_UNLCK), and delivers the      *)
(* session-level callback to an engine registered at session level.        *)
(***************************************************************************)
EXTENDS Integers, Sequences, FiniteSets, TLC

\* ---------------------------------------------------------------- bounds
NumThreads == 2      \* worker threads (one per client connection)
MaxKey == 1          \* key column values 1..MaxKey
MaxVal == 2          \* payload column values 1..MaxVal
MaxRows == 2         \* VersionChainHeads ever allocated
MaxClock == 3        \* commits ever performed (the commit order counter)
MaxChain == 2        \* nodes linked in one version chain
MaxByte == 2         \* key bytes 1..MaxByte (index operations)
MaxIxHead == 2       \* VersionChainHeads handed to put (index operations)
MaxScanRows == 3     \* rows of the table a full scan runs over
MaxScanTs == 2       \* commit orders in the table a full scan runs over
NumKeyParts == 2     \* key parts of the index (and columns of its table)
MaxVarLen == 2       \* bytes a variable-length column holds at most
CharLen == 1         \* bytes of a fixed-length column
MaxVarByte == 1      \* bytes 1..MaxVarByte in a variable-length column
MaxHandlerRows == 1  \* records the Table hands to the handler's index reads

Threads == 1..NumThreads
Keys == 1..MaxKey
Vals == 1..MaxVal
\* the rows offered to write_row: every key, with payload 1 (update_row writes
\* every payload)
Records == Keys \X {1}

\* ------------------------------------------------------- result codes
DB20XX_SUCCESS == "DB20XX_SUCCESS"
DB20XX_KEY_EXIST == "DB20XX_KEY_EXIST"
DB20XX_KEY_NOT_EXIST == "DB20XX_KEY_NOT_EXIST"
DB20XX_ABORT == "DB20XX_ABORT"
DB20XX_INVISIBLE_VERSION == "DB20XX_INVISIBLE_VERSION"
DB20XX_DELETED_VERSION == "DB20XX_DELETED_VERSION"
DB20XX_END_OF_TABLE == "DB20XX_END_OF_TABLE"
DB20XX_RETRY == "DB20XX_RETRY"
DB20XX_FAIL == "DB20XX_FAIL"
HA_OK == "0"
HA_ERR_FOUND_DUPP_KEY == "HA_ERR_FOUND_DUPP_KEY"
HA_ERR_GENERIC == "HA_ERR_GENERIC"
HA_ERR_KEY_NOT_FOUND == "HA_ERR_KEY_NOT_FOUND"
HA_ERR_END_OF_FILE == "HA_ERR_END_OF_FILE"
HA_ERR_LOCK_DEADLOCK == "HA_ERR_LOCK_DEADLOCK"
F_RDLCK == "F_RDLCK"
F_WRLCK == "F_WRLCK"
F_UNLCK == "F_UNLCK"
LockTypes == {F_RDLCK, F_WRLCK, F_UNLCK}

IDLE == "IDLE"
ACTIVE == "ACTIVE"
NoHead == 0          \* nullptr VersionChainHead / Record
NoTxn == 0           \* no owner / unset commit order / unset deletion marker

VARIABLES
  heads,            \* arena of VersionChainHeads: heads[h] is the chain, newest first
  index,            \* MasstreeIndex::masstree_: key -> VersionChainHead (NoHead = absent)
  clock,            \* the commit order counter: the last commit order handed out
  status,           \* TransactionContext state per thread: IDLE | ACTIVE
  abortPending,     \* TransactionContext status is DB20XX_TRANSACTION_ABORT
  start_ts,         \* TransactionContext start marker (the snapshot point)
  current_record_,  \* ha_db20xx::current_record_ (the head of the record last read)
  phase,            \* host: "none" | "stmt" | "ending" per thread
  multi,            \* host: thd->in_multi_stmt_transaction_mode()
  regStmt,          \* host: engine registered at statement level (trans_register_ha(false))
  regAll,           \* host: engine registered at session level (trans_register_ha(true))
  last,             \* history: the last call and what it returned
  inserts,          \* history: per key, how many inserts succeeded / met KeyExists
  masstree_,        \* MasstreeIndex::masstree_ as readers see it: key -> [present, value]
  leaf_lock,        \* the leaf latch a put holds from find_insert to finish (0 = free)
  put_pc,           \* per thread: where its put call stands, and its arguments
  phantom_epoch,    \* structural version of the leaf: counts published inserts
  masstree_scan_stack_,  \* ha_db20xx::masstree_scan_stack_ (scan_stack_type)
  ix_last,          \* history: the last index call that returned, and its result
  seq_scan_cursor_, \* ha_db20xx::seq_scan_cursor_ (position; 0 = never reset)
  rnd_last,         \* history: what the full scan returned since rnd_init
  key_info,         \* table->key_info[active_index]: the type of each key part
  key_container,    \* ThreadContext: the key scratch buffer of the handler's thread
  index_key_,       \* ha_db20xx::index_key_ (Key: pointer and length)
  scan_direction_,  \* ha_db20xx::scan_direction_ (ha_rkey_function)
  h_last,           \* history: the last handler call on the index and its key
  rd                \* the index read in progress: its position and what it saw

ixvars == <<masstree_, leaf_lock, put_pc, phantom_epoch, masstree_scan_stack_,
            ix_last>>
rndvars == <<seq_scan_cursor_, rnd_last>>
hvars == <<key_info, key_container, index_key_, scan_direction_, h_last>>

mainvars == <<heads, index, clock, status, abortPending, start_ts,
              current_record_, phase, multi, regStmt, regAll, last, inserts>>

vars == <<mainvars, ixvars, rndvars, hvars, rd>>

engine == <<heads, index, clock, status, abortPending, start_ts>>
host == <<phase, multi, regStmt, regAll>>

\* --------------------------------------------------------- version chain
\* a node: its record, the transaction (thread) that created it while that one is
\* uncommitted, its commit order, and the same two for its deletion marker
NewNode(rec, t) ==
  [rec |-> rec, creator |-> t, cts |-> NoTxn, deleter |-> NoTxn, dts |-> NoTxn]

\* creation marker visible under snapshot point s: creator committed at or before s
Visible(n, s) == n.cts # NoTxn /\ n.cts <= s

\* deletion marker set and visible under snapshot point s
DelVisible(n, s) == n.dts # NoTxn /\ n.dts <= s

Min(S) == CHOOSE x \in S : \A y \in S : x <= y

\* mutant of ReadChain: the newest node is returned whoever wrote it
ReadChain_Newest(chain, s) ==
  IF chain = <<>> THEN [code |-> DB20XX_INVISIBLE_VERSION, rec |-> <<>>, pos |-> 0]
  ELSE [code |-> DB20XX_SUCCESS, rec |-> chain[1].rec, pos |-> 1]

\* walk the chain from the head; stop at the first node whose creation is visible
ReadChain(chain, s) ==
  LET vis == {i \in 1..Len(chain) : Visible(chain[i], s)}
  IN IF vis = {} THEN [code |-> DB20XX_INVISIBLE_VERSION, rec |-> <<>>, pos |-> 0]
     ELSE IF DelVisible(chain[Min(vis)], s)
          THEN [code |-> DB20XX_DELETED_VERSION, rec |-> <<>>, pos |-> 0]
          ELSE [code |-> DB20XX_SUCCESS, rec |-> chain[Min(vis)].rec, pos |-> Min(vis)]

\* mutant of WriteConflict: uncommitted writes of other transactions are not
\* looked at
WriteConflict_CommittedOnly(chain, t) ==
  /\ chain # <<>>
  /\ \/ chain[1].cts > start_ts[t]
     \/ chain[1].dts > start_ts[t]

\* write-write conflict on the newest node: another transaction holds an
\* uncommitted node or deletion marker on it, or its creation / deletion was
\* committed after t's snapshot point (a concurrent transaction wrote it)
WriteConflict(chain, t) ==
  /\ chain # <<>>
  /\ \/ chain[1].creator \notin {NoTxn, t}
     \/ chain[1].deleter \notin {NoTxn, t}
     \/ chain[1].cts > start_ts[t]
     \/ chain[1].dts > start_ts[t]

\* commit(): give every node created / marked deleted by t the commit order ts
CommitChain(chain, t, ts) ==
  [i \in 1..Len(chain) |->
     LET n == chain[i]
         c == IF n.creator = t THEN [n EXCEPT !.creator = NoTxn, !.cts = ts] ELSE n
     IN IF c.deleter = t THEN [c EXCEPT !.deleter = NoTxn, !.dts = ts] ELSE c]

\* abort(): unlink every node created by t, clear every deletion marker t set
AbortChain(chain, t) ==
  LET kept == SelectSeq(chain, LAMBDA n : n.creator # t)
  IN [i \in 1..Len(kept) |->
        IF kept[i].deleter = t THEN [kept[i] EXCEPT !.deleter = NoTxn] ELSE kept[i]]

\* ---------------------------------------------------- TransactionContext
on_going(t) == status[t] = ACTIVE

get_transaction_status_is_abort(t) == abortPending[t]

\* begin_transaction(thread_id): fails if already ACTIVE, else takes the snapshot
begin_transaction(t) ==
  IF status[t] = ACTIVE
  THEN UNCHANGED <<start_ts, status, abortPending>>
  ELSE /\ start_ts' = [start_ts EXCEPT ![t] = clock]
       /\ status' = [status EXCEPT ![t] = ACTIVE]
       /\ abortPending' = [abortPending EXCEPT ![t] = FALSE]

\* commit(): finalize the write set with the next commit order, back to IDLE
TxnCommit(t) ==
  IF status[t] = ACTIVE
  THEN /\ clock' = clock + 1
       /\ heads' = [h \in DOMAIN heads |-> CommitChain(heads[h], t, clock + 1)]
       /\ status' = [status EXCEPT ![t] = IDLE]
       /\ abortPending' = [abortPending EXCEPT ![t] = FALSE]
       /\ start_ts' = [start_ts EXCEPT ![t] = NoTxn]
  ELSE UNCHANGED <<clock, heads, status, abortPending, start_ts>>

\* abort(): discard the write set, back to IDLE
TxnAbort(t) ==
  /\ UNCHANGED clock
  /\ IF status[t] = ACTIVE
     THEN /\ heads' = [h \in DOMAIN heads |-> AbortChain(heads[h], t)]
          /\ status' = [status EXCEPT ![t] = IDLE]
          /\ abortPending' = [abortPending EXCEPT ![t] = FALSE]
          /\ start_ts' = [start_ts EXCEPT ![t] = NoTxn]
     ELSE UNCHANGED <<heads, status, abortPending, start_ts>>

\* ---------------------------------------------------------- MasstreeIndex
\* mutant of MasstreePut: the result of find_insert is lost, put always answers
\* "not found"
MasstreePut_FoundLost(tree, key, vchain_head) ==
  [found |-> FALSE, tree |-> [tree EXCEPT ![key] = vchain_head]]

\* put: find_insert, then apply_put stores the head whether or not the key was
\* found; the return value is `found`
MasstreePut(tree, key, vchain_head) ==
  [found |-> tree[key] # NoHead, tree |-> [tree EXCEPT ![key] = vchain_head]]

\* get: found, and the stored head when found
MasstreeGet(tree, key) == [found |-> tree[key] # NoHead, head |-> tree[key]]

\* build_key: the bytes of the record's key-part fields, in key_parts order
build_key(rec) == rec[1]

\* ------------------------------------------------------------------ Table
\* insert: a new head with one uncommitted node, then put into the index; a put
\* that reports the key as already there fails the insert with KeyExists and the
\* row-storage insertion is reversed (the new head keeps no node)
insert_record_ret(rec) ==
  IF MasstreePut(index, build_key(rec), Len(heads) + 1).found
  THEN DB20XX_KEY_EXIST ELSE DB20XX_SUCCESS

insert_record_from_mysql(t, rec) ==
  LET h == Len(heads) + 1
      p == MasstreePut(index, build_key(rec), h)
  IN /\ index' = p.tree
     /\ heads' = Append(heads, IF insert_record_ret(rec) = DB20XX_SUCCESS
                               THEN <<NewNode(rec, t)>> ELSE <<>>)

\* point read through an index idx over the chains hs under snapshot point s
index_get_record(idx, hs, key, s) ==
  LET g == MasstreeGet(idx, key)
  IN IF ~g.found
     THEN [code |-> DB20XX_KEY_NOT_EXIST, rec |-> <<>>, head |-> NoHead, pos |-> 0]
     ELSE LET r == ReadChain(hs[g.head], s)
          IN [code |-> IF r.code = DB20XX_SUCCESS THEN DB20XX_SUCCESS
                       ELSE DB20XX_KEY_NOT_EXIST,
              rec |-> r.rec, head |-> g.head, pos |-> r.pos]

\* point read through the index under the caller's snapshot
get_record_from_index(t, key) == index_get_record(index, heads, key, start_ts[t])

\* full table scan under the caller's snapshot: the rows it returns
table_scan_rows(t) ==
  {h \in DOMAIN heads : ReadChain(heads[h], start_ts[t]).code = DB20XX_SUCCESS}

\* update: a write-write conflict puts the writer into ABORT-PENDING and leaves the
\* chain alone; otherwise a new node is linked ahead of the newest one
update_record_ret(t, h) ==
  IF WriteConflict(heads[h], t) THEN DB20XX_ABORT ELSE DB20XX_SUCCESS

update_record_from_mysql(t, h, val) ==
  IF update_record_ret(t, h) = DB20XX_ABORT
  THEN /\ abortPending' = [abortPending EXCEPT ![t] = TRUE]
       /\ UNCHANGED heads
  ELSE /\ heads' = [heads EXCEPT ![h] =
                      <<NewNode(<<heads[h][1].rec[1], val>>, t)>> \o @]
       /\ UNCHANGED abortPending

\* delete: sets the deletion marker on the newest node; nothing is unlinked and the
\* index is not touched
delete_record(t, h) ==
  IF WriteConflict(heads[h], t)
  THEN /\ abortPending' = [abortPending EXCEPT ![t] = TRUE]
       /\ UNCHANGED heads
  ELSE /\ heads' = [heads EXCEPT ![h] =
                      IF @[1].deleter = NoTxn /\ @[1].dts = NoTxn
                      THEN <<[@[1] EXCEPT !.deleter = t]>> \o Tail(@) ELSE @]
       /\ UNCHANGED abortPending

\* ------------------------------------------------------------------ host
\* thd->in_active_multi_stmt_transaction(): a multi-statement transaction has
\* been started (the engine registered at session level)
in_active_multi_stmt_transaction(t) == multi[t] /\ regAll[t]

\* history of the transaction-level calls (external_lock, commit, rollback); a
\* handler call on rows leaves no entry
Call(t, op, all, ret, note) ==
  last' = [thr |-> t, op |-> op, all |-> all, ret |-> ret, note |-> note]

NoCall == [thr |-> 0, op |-> "", all |-> FALSE, ret |-> HA_OK, note |-> ""]

\* --------------------------------------------------------------- ha_db20xx
\* mutant of external_lock_begins: the on_going() test is missing
external_lock_begins_Always(t, lock_type) == lock_type # F_UNLCK

\* external_lock: a lock request on a context that is not on-going begins one
external_lock_begins(t, lock_type) == lock_type # F_UNLCK /\ ~on_going(t)

external_lock(t, lock_type, mode) ==
  /\ IF lock_type # F_UNLCK
     THEN /\ phase[t] = "none"
          /\ regAll[t] => mode = multi[t]
          /\ phase' = [phase EXCEPT ![t] = "stmt"]
          /\ multi' = [multi EXCEPT ![t] = mode]
     ELSE /\ phase[t] = "ending" \/ (phase[t] = "stmt" /\ ~regStmt[t])
          /\ mode = multi[t]
          /\ phase' = [phase EXCEPT ![t] = "none"]
          /\ multi' = [multi EXCEPT ![t] = regAll[t]]
  /\ IF external_lock_begins(t, lock_type)
     THEN /\ begin_transaction(t)
          /\ regStmt' = [regStmt EXCEPT ![t] = TRUE]
          /\ regAll' = [regAll EXCEPT ![t] = @ \/ mode]
          /\ Call(t, "external_lock", FALSE, HA_OK,
                  IF on_going(t) THEN "begin_on_going" ELSE "begin")
     ELSE /\ UNCHANGED <<start_ts, status, abortPending, regStmt, regAll>>
          /\ Call(t, "external_lock", FALSE, HA_OK, "no_begin")
  /\ UNCHANGED <<heads, index, clock, current_record_, inserts, ixvars, rndvars, hvars, rd>>

\* write_row: KEY_EXIST -> HA_ERR_FOUND_DUPP_KEY, ABORT -> HA_ERR_GENERIC, else 0
write_row_ret(ret) ==
  IF ret = DB20XX_KEY_EXIST THEN HA_ERR_FOUND_DUPP_KEY
  ELSE IF ret = DB20XX_ABORT THEN HA_ERR_GENERIC
  ELSE HA_OK

write_row(t, sl_record) ==
  /\ phase[t] = "stmt"
  /\ Len(heads) < MaxRows
  /\ insert_record_from_mysql(t, sl_record)
  /\ last' = NoCall
  /\ inserts' = [inserts EXCEPT ![build_key(sl_record)] =
                   IF write_row_ret(insert_record_ret(sl_record)) = HA_OK
                   THEN [@ EXCEPT !.ok = @ + 1] ELSE [@ EXCEPT !.dup = @ + 1]]
  /\ UNCHANGED <<clock, status, abortPending, start_ts, current_record_, host,
                 ixvars, rndvars, hvars, rd>>

\* index_read_map with a full key and HA_READ_KEY_EXACT: a point get
index_read_map_ret(found) ==
  IF found = DB20XX_SUCCESS THEN HA_OK
  ELSE IF found = DB20XX_ABORT THEN HA_ERR_GENERIC
  ELSE HA_ERR_KEY_NOT_FOUND

index_read_map(t, key) ==
  LET r == get_record_from_index(t, key)
  IN /\ phase[t] = "stmt"
     /\ current_record_' = [current_record_ EXCEPT ![t] =
                              IF r.code = DB20XX_SUCCESS THEN r.head ELSE @]
     /\ last' = NoCall
     /\ UNCHANGED <<engine, host, inserts, ixvars, rndvars, hvars, rd>>

\* update_row: the result of update_record_from_mysql is dropped; returns 0
update_row_ret(ret) == HA_OK

update_row(t, val) ==
  /\ phase[t] = "stmt"
  /\ current_record_[t] # NoHead
  /\ Len(heads[current_record_[t]]) < MaxChain
  /\ update_record_from_mysql(t, current_record_[t], val)
  /\ last' = NoCall
  /\ UNCHANGED <<index, clock, status, start_ts, current_record_, host, inserts,
                 ixvars, rndvars, hvars, rd>>

\* mutant of delete_row: the row's key is taken out of the index as well
delete_row_Unindex(t) ==
  /\ phase[t] = "stmt"
  /\ current_record_[t] # NoHead
  /\ delete_record(t, current_record_[t])
  /\ index' = [k \in Keys |-> IF index[k] = current_record_[t] THEN NoHead
                               ELSE index[k]]
  /\ last' = NoCall
  /\ UNCHANGED <<clock, status, start_ts, current_record_, host, inserts,
                 ixvars, rndvars, hvars, rd>>

\* delete_row: delete_record on the current record; returns 0
delete_row(t) ==
  /\ phase[t] = "stmt"
  /\ current_record_[t] # NoHead
  /\ delete_record(t, current_record_[t])
  /\ last' = NoCall
  /\ UNCHANGED <<index, clock, status, start_ts, current_record_, host, inserts,
                 ixvars, rndvars, hvars, rd>>

\* the host delivers a callback at statement end (all = FALSE) to an engine
\* registered at statement level, and at session end (all = TRUE) to an engine
\* registered at session level
Delivered(t, all) ==
  /\ IF all THEN phase[t] = "none" /\ regAll[t] ELSE phase[t] = "stmt" /\ regStmt[t]
  /\ regStmt' = [regStmt EXCEPT ![t] = FALSE]
  /\ regAll' = [regAll EXCEPT ![t] = @ /\ ~all]
  /\ phase' = [phase EXCEPT ![t] = IF all THEN "none" ELSE "ending"]
  /\ multi' = [multi EXCEPT ![t] = @ /\ ~all]

\* mutant of commit_finds_abort: the status test is missing
commit_finds_abort_Never(t) == FALSE

\* mutant of commit_finds_abort: the status is tested at statement end only
commit_finds_abort_StmtOnly(t) ==
  get_transaction_status_is_abort(t) /\ phase[t] = "stmt"

\* db20xx_commit: the transaction status is DB20XX_TRANSACTION_ABORT
commit_finds_abort(t) == get_transaction_status_is_abort(t)

\* db20xx_commit: real_commit = all || !thd->in_multi_stmt_transaction_mode()
commit_real_commit(t, all) == all \/ ~multi[t]

\* the ABORT branch: txn_ctx->abort(); return HA_ERR_LOCK_DEADLOCK
db20xx_commit_on_abort(t, all) ==
  /\ TxnAbort(t)
  /\ Call(t, "db20xx_commit", all, HA_ERR_LOCK_DEADLOCK, "abort")

db20xx_commit(t, all) ==
  /\ Delivered(t, all)
  /\ IF commit_finds_abort(t)
     THEN db20xx_commit_on_abort(t, all)
     ELSE IF commit_real_commit(t, all)
          THEN /\ status[t] = ACTIVE => clock < MaxClock
               /\ TxnCommit(t)
               /\ Call(t, "db20xx_commit", all, HA_OK, "commit")
          ELSE /\ UNCHANGED <<clock, heads, status, abortPending, start_ts>>
               /\ Call(t, "db20xx_commit", all, HA_OK, "noop")
  /\ UNCHANGED <<index, current_record_, inserts, ixvars, rndvars, hvars, rd>>

\* db20xx_rollback: real_commit = all || thd->in_active_multi_stmt_transaction()
rollback_real_commit(t, all) == all \/ in_active_multi_stmt_transaction(t)

db20xx_rollback(t, all) ==
  /\ Delivered(t, all)
  /\ IF rollback_real_commit(t, all)
     THEN /\ TxnAbort(t)
          /\ Call(t, "db20xx_rollback", all, HA_OK, "abort")
     ELSE /\ UNCHANGED <<clock, heads, status, abortPending, start_ts>>
          /\ Call(t, "db20xx_rollback", all, HA_OK, "noop")
  /\ UNCHANGED <<index, current_record_, inserts, ixvars, rndvars, hvars, rd>>

\* ------------------------------------------- MasstreeIndex, call by call
\* The index operations of index.h on one index, with put taken step by step
\* (find_insert, apply_put, finish) so that readers run between the steps.  What
\* the Masstree library does inside a step (cursor, latch, publication, scan
\* stack) is not part of the source tree and follows section 4.1 of the
\* specification.

\* keys are byte strings; <<1>> is a proper prefix of <<1, 1>>
IxKeys == {<<b>> : b \in 1..MaxByte} \cup {<<1, 1>>}
IxHeads == 1..MaxIxHead

\* byte-lexicographic order of keys
RECURSIVE KeyLess(_, _)
KeyLess(a, b) ==
  IF b = <<>> THEN FALSE
  ELSE IF a = <<>> THEN TRUE
  ELSE IF a[1] # b[1] THEN a[1] < b[1]
  ELSE KeyLess(Tail(a), Tail(b))

FirstKey(S) == CHOOSE k \in S : \A j \in S \ {k} : KeyLess(k, j)
LastKey(S) == CHOOSE k \in S : \A j \in S \ {k} : KeyLess(j, k)

\* an unused leaf slot
NoSlot == [present |-> FALSE, value |-> NoHead]

\* the keys a traversal finds in the leaf
PresentKeys(tree) == {k \in IxKeys : tree[k].present}

PutIdle == [pc |-> 0, key |-> <<>>, head |-> NoHead, found |-> FALSE]

NoScan == [from |-> <<>>, emit |-> FALSE, dir |-> "", keys |-> <<>>, quiet |-> TRUE]

NoStack == [no_value |-> TRUE, key |-> <<>>, dir |-> "", epoch |-> 0, leaf |-> {}]

\* history entry of an index call that returned
IxCall(op, key, found, head, out0) ==
  [ix_last EXCEPT !.op = op, !.key = key, !.found = found, !.head = head,
                  !.out0 = out0]

\* mutant of put_order: the insert is published before the value is written
put_order_FinishFirst == <<"find_insert", "finish", "apply_put">>

\* MasstreeIndex::put: find_insert, then apply_put, then finish
put_order == <<"find_insert", "apply_put", "finish">>

\* MasstreeIndex::put: return found
put_ret(found) == found

\* mutant of lp_finish_epoch: an insert is published without a structural notice
lp_finish_epoch_Silent(found) == phantom_epoch

\* lp.finish(1, ti): publishing a new key changes the leaf's structural version
lp_finish_epoch(found) == IF found THEN phantom_epoch ELSE phantom_epoch + 1

\* the step of thread t's put that comes next is `step'; afterwards the call has
\* returned if that was the last step
PutStep(t, step) ==
  /\ put_pc[t].pc < Len(put_order)
  /\ put_order[put_pc[t].pc + 1] = step

PutAdvance(t, key, vchain_head, found, hist) ==
  IF put_pc[t].pc + 1 = Len(put_order)
  THEN /\ put_pc' = [put_pc EXCEPT ![t] = PutIdle]
       /\ ix_last' = [hist EXCEPT !.op = "put", !.key = key,
                                  !.found = put_ret(found), !.head = vchain_head,
                                  !.out0 = NoHead, !.stored[key] = vchain_head]
  ELSE /\ put_pc' = [put_pc EXCEPT ![t] = [pc |-> @.pc + 1, key |-> key,
                                            head |-> vchain_head, found |-> found]]
       /\ ix_last' = hist

\* bool found = lp.find_insert(ti): latch the leaf, look the key up, reserve a
\* slot if it is absent; if (!found) ti.observe_phantoms(lp.node())
put_find_insert(t, key, vchain_head) ==
  /\ PutStep(t, "find_insert")
  /\ leaf_lock = 0
  /\ leaf_lock' = t
  /\ PutAdvance(t, key, vchain_head, masstree_[key].present, ix_last)
  /\ UNCHANGED <<masstree_, phantom_epoch, masstree_scan_stack_, mainvars, rndvars, hvars, rd>>

\* apply_put(lp.value(), vchain_head, ti): value = vchain_head
put_apply_put(t) ==
  /\ PutStep(t, "apply_put")
  /\ masstree_' = [masstree_ EXCEPT ![put_pc[t].key].value = put_pc[t].head]
  /\ PutAdvance(t, put_pc[t].key, put_pc[t].head, put_pc[t].found, ix_last)
  /\ UNCHANGED <<leaf_lock, phantom_epoch, masstree_scan_stack_, mainvars, rndvars, hvars, rd>>

\* lp.finish(1, ti): publish the slot and release the latch
put_finish(t) ==
  /\ PutStep(t, "finish")
  /\ masstree_' = [masstree_ EXCEPT ![put_pc[t].key].present = TRUE]
  /\ phantom_epoch' = lp_finish_epoch(put_pc[t].found)
  /\ leaf_lock' = 0
  /\ PutAdvance(t, put_pc[t].key, put_pc[t].head, put_pc[t].found,
                [ix_last EXCEPT !.scan.quiet = @ /\ put_pc[t].found])
  /\ UNCHANGED <<masstree_scan_stack_, mainvars, rndvars, hvars, rd>>

\* mutant of get_out: the output is assigned whether or not the key was found
get_out_Always(found, value, out0) == value

\* MasstreeIndex::get: if (found) vchain_head = lp.value()
get_out(found, value, out0) == IF found THEN value ELSE out0

\* MasstreeIndex::get: found = lp.find_unlocked(ti); out0 is the caller's
\* vchain_head before the call
MasstreeIndex_get(key, out0) ==
  LET found == masstree_[key].present
  IN /\ ix_last' = IxCall("get", key, found,
                          get_out(found, masstree_[key].value, out0), out0)
     /\ UNCHANGED <<masstree_, leaf_lock, put_pc, phantom_epoch,
                    masstree_scan_stack_, mainvars, rndvars, hvars, rd>>

\* the keys a scan positioned at `key' may go to next
ScanAhead(leaf, key, dir, emit) ==
  {k \in leaf : \/ emit /\ k = key
                \/ dir = "fwd" /\ KeyLess(key, k)
                \/ dir = "rev" /\ KeyLess(k, key)}

ScanPick(S, dir) == IF dir = "fwd" THEN FirstKey(S) ELSE LastKey(S)

\* masstree_.scan_range_first / rscan_range_first: a fresh traversal from `key'
ScanFirstStack(key, emit, dir) ==
  LET leaf == PresentKeys(masstree_)
      ahead == ScanAhead(leaf, key, dir, emit)
  IN IF ahead = {}
     THEN [no_value |-> TRUE, key |-> key, dir |-> dir, epoch |-> phantom_epoch,
           leaf |-> leaf]
     ELSE [no_value |-> FALSE, key |-> ScanPick(ahead, dir), dir |-> dir,
           epoch |-> phantom_epoch, leaf |-> leaf]

\* mutant of scan_exhausted: a next call on an exhausted stack looks again
scan_exhausted_Never(stack) == FALSE

\* the stack has reported the end of the range
scan_exhausted(stack) == stack.no_value

\* masstree_.scan_range_next / rscan_range_next: an exhausted stack stays
\* exhausted; otherwise go on from the stack's key, over the leaf as the stack
\* knows it unless its structural version has changed
ScanNextStack(stack, dir) ==
  LET leaf == IF stack.epoch = phantom_epoch THEN stack.leaf
              ELSE PresentKeys(masstree_)
      ahead == ScanAhead(leaf, stack.key, dir, FALSE)
  IN IF scan_exhausted(stack) THEN stack
     ELSE IF ahead = {}
          THEN [stack EXCEPT !.no_value = TRUE, !.epoch = phantom_epoch,
                             !.leaf = leaf]
          ELSE [stack EXCEPT !.no_value = FALSE, !.key = ScanPick(ahead, dir),
                             !.epoch = phantom_epoch, !.leaf = leaf]

\* if (stack.no_value()) return false; else vchain_head = stack.get_value(),
\* return true
ScanReturn(op, stack, scan) ==
  /\ masstree_scan_stack_' = stack
  /\ ix_last' = [IxCall(op, stack.key, ~stack.no_value,
                        IF stack.no_value THEN NoHead
                        ELSE masstree_[stack.key].value, NoHead)
                   EXCEPT !.scan = IF stack.no_value THEN scan
                                   ELSE [scan EXCEPT !.keys = Append(@, stack.key)]]
  /\ UNCHANGED <<masstree_, leaf_lock, put_pc, phantom_epoch, mainvars, rndvars, hvars, rd>>

\* mutant of scan_range_first: emit_firstkey is not handed on
scan_range_first_NoEmit(key, emit_firstkey) ==
  ScanReturn("scan_range_first", ScanFirstStack(key, FALSE, "fwd"),
             [from |-> key, emit |-> emit_firstkey, dir |-> "fwd", keys |-> <<>>,
              quiet |-> TRUE])

scan_range_first(key, emit_firstkey) ==
  ScanReturn("scan_range_first", ScanFirstStack(key, emit_firstkey, "fwd"),
             [from |-> key, emit |-> emit_firstkey, dir |-> "fwd", keys |-> <<>>,
              quiet |-> TRUE])

scan_range_next ==
  /\ masstree_scan_stack_.dir = "fwd"
  /\ ScanReturn("scan_range_next", ScanNextStack(masstree_scan_stack_, "fwd"),
                ix_last.scan)

rscan_range_first(key, emit_firstkey) ==
  ScanReturn("rscan_range_first", ScanFirstStack(key, emit_firstkey, "rev"),
             [from |-> key, emit |-> emit_firstkey, dir |-> "rev", keys |-> <<>>,
              quiet |-> TRUE])

rscan_range_next ==
  /\ masstree_scan_stack_.dir = "rev"
  /\ ScanReturn("rscan_range_next", ScanNextStack(masstree_scan_stack_, "rev"),
                ix_last.scan)

\* ------------------------------------------------------- full table scan
\* rnd_init / rnd_next of ha_db20xx.cc over the rows of the table in cursor order
\* (position c is head c).  Table::table_scan_get is not part of the source tree
\* and follows section 4.4 of the specification.

NoRnd == [t |-> 0, ret |-> "", rows |-> <<>>, steps |-> 0]

\* no read failure during a call
NoFail == [at |-> 0, code |-> DB20XX_SUCCESS]

\* the read failures table_scan_get may report at a row
RndFails ==
  {NoFail} \cup [at : 1..MaxScanRows, code : {DB20XX_RETRY, DB20XX_FAIL, DB20XX_ABORT}]

\* table_scan_get at cursor position c: the end of the table, a read failure, or
\* the outcome of the chain read under the caller's snapshot
table_scan_get(c, t, fail) ==
  IF c > Len(heads) THEN DB20XX_END_OF_TABLE
  ELSE IF c = fail.at THEN fail.code
  ELSE ReadChain(heads[c], start_ts[t]).code

\* mutant of rnd_skip: a deleted version is not skipped
rnd_skip_InvisibleOnly(ret) == ret = DB20XX_INVISIBLE_VERSION

\* rnd_next: INVISIBLE_VERSION or DELETED_VERSION -> inc_cursor, rnd_next again
rnd_skip(ret) == ret \in {DB20XX_INVISIBLE_VERSION, DB20XX_DELETED_VERSION}

\* rnd_next from cursor position c; steps counts the calls of table_scan_get
RECURSIVE rnd_next_ret(_, _, _, _)
rnd_next_ret(c, t, fail, steps) ==
  LET ret == table_scan_get(c, t, fail)
  IN IF ret = DB20XX_END_OF_TABLE
     THEN [ret |-> HA_ERR_END_OF_FILE, cursor |-> c, row |-> NoHead, steps |-> steps + 1]
     ELSE IF ret \in {DB20XX_RETRY, DB20XX_FAIL, DB20XX_ABORT}
     THEN [ret |-> HA_ERR_GENERIC, cursor |-> c, row |-> NoHead, steps |-> steps + 1]
     ELSE IF rnd_skip(ret)
     THEN rnd_next_ret(c + 1, t, fail, steps + 1)
     ELSE [ret |-> HA_OK, cursor |-> c + 1, row |-> c, steps |-> steps + 1]

\* rnd_init: seq_scan_cursor_.reset(); return 0 (a handler serves one thread)
rnd_init(t) ==
  /\ phase[t] = "stmt"
  /\ rnd_last.t \in {0, t}
  /\ seq_scan_cursor_' = 1
  /\ rnd_last' = [NoRnd EXCEPT !.t = t, !.ret = HA_OK]
  /\ UNCHANGED <<mainvars, ixvars, hvars, rd>>

rnd_next(t, fail) ==
  LET r == rnd_next_ret(seq_scan_cursor_, t, fail, 0)
  IN /\ phase[t] = "stmt"
     /\ seq_scan_cursor_ # 0 /\ rnd_last.t = t
     /\ seq_scan_cursor_' = r.cursor
     /\ current_record_' = [current_record_ EXCEPT ![t] =
                              IF r.ret = HA_OK THEN r.row ELSE @]
     /\ rnd_last' = [rnd_last EXCEPT !.ret = r.ret, !.steps = r.steps,
                                     !.rows = IF r.ret = HA_OK THEN Append(@, r.row)
                                              ELSE @]
     /\ UNCHANGED <<engine, host, last, inserts, ixvars, hvars, rd>>

\* ------------------------------------------------ index reads, step by step
\* A read of the index (get, scan_range_first / next, rscan_range_first / next)
\* as the steps of Masstree's optimistic traversal: wait for a stable leaf
\* version, read, check that the version has not changed and start over inside
\* the index if it has.  The Masstree library is not part of the source tree;
\* the steps follow section 4.1 and 5 of the specification.

ReadOps == {"get", "scan_range_first", "scan_range_next", "rscan_range_first",
            "rscan_range_next"}

\* the keys the step-by-step reads and the puts next to them work on
LiveKeys == {<<b>> : b \in 1..MaxByte}

\* a read: where it stands, its arguments, the leaf version it noted, whether
\* and where its traversal found a key, what it returned and whether it had to
\* start over
NoRd == [pc |-> "idle", op |-> "", key |-> <<>>, emit |-> FALSE, ver |-> 0,
         found |-> FALSE, at |-> <<>>, ret |-> "", retried |-> FALSE]

\* the leaf is being changed: a put that inserts a new key holds the latch
LeafDirty == leaf_lock # 0 /\ ~put_pc[leaf_lock].found

\* what the traversal of a read finds in the index as it is
RdTraverse(op, key, emit) ==
  IF op = "get"
  THEN [NoStack EXCEPT !.no_value = ~masstree_[key].present, !.key = key]
  ELSE IF op = "scan_range_first" THEN ScanFirstStack(key, emit, "fwd")
  ELSE IF op = "rscan_range_first" THEN ScanFirstStack(key, emit, "rev")
  ELSE IF op = "scan_range_next" THEN ScanNextStack(masstree_scan_stack_, "fwd")
  ELSE ScanNextStack(masstree_scan_stack_, "rev")

\* mutant of rd_on_change: a changed version ends the call with a retry result
rd_on_change_Return == [pc |-> "idle", ret |-> "retry"]

\* the leaf version changed under the read: the read starts over inside the
\* index
rd_on_change == [pc |-> "stable", ret |-> ""]

\* the handler calls a read of the index
rd_call(op, key, emit_firstkey) ==
  /\ rd.pc = "idle"
  /\ op = "scan_range_next" => masstree_scan_stack_.dir = "fwd"
  /\ op = "rscan_range_next" => masstree_scan_stack_.dir = "rev"
  /\ rd' = [NoRd EXCEPT !.pc = "stable", !.op = op, !.key = key,
                        !.emit = emit_firstkey]
  /\ UNCHANGED <<mainvars, ixvars, rndvars, hvars>>

\* the read waits until no insert is under way in the leaf and notes its version
rd_stable ==
  /\ rd.pc = "stable"
  /\ ~LeafDirty
  /\ rd' = [rd EXCEPT !.pc = "read", !.ver = phantom_epoch]
  /\ UNCHANGED <<mainvars, ixvars, rndvars, hvars>>

\* the read looks the key up / moves the cursor, without a latch
rd_read ==
  /\ rd.pc = "read"
  /\ rd' = [rd EXCEPT !.pc = "check",
                       !.found = ~RdTraverse(rd.op, rd.key, rd.emit).no_value,
                       !.at = IF RdTraverse(rd.op, rd.key, rd.emit).no_value
                              THEN <<>> ELSE RdTraverse(rd.op, rd.key, rd.emit).key]
  /\ UNCHANGED <<mainvars, ixvars, rndvars, hvars>>

\* the read checks the leaf version: unchanged, it returns what it found (a scan
\* leaves its position in the stack: the leaf is as the traversal saw it);
\* changed, it starts over
rd_check ==
  /\ rd.pc = "check"
  /\ IF phantom_epoch # rd.ver
     THEN /\ rd' = [rd EXCEPT !.pc = rd_on_change.pc, !.ret = rd_on_change.ret,
                              !.retried = TRUE]
          /\ UNCHANGED masstree_scan_stack_
     ELSE /\ rd' = [NoRd EXCEPT !.op = rd.op, !.retried = rd.retried,
                                !.found = rd.found, !.at = rd.at,
                                !.ret = IF rd.found THEN "found" ELSE "not_found"]
          /\ masstree_scan_stack_' = IF rd.op = "get" THEN masstree_scan_stack_
                                     ELSE RdTraverse(rd.op, rd.key, rd.emit)
  /\ UNCHANGED <<masstree_, leaf_lock, put_pc, phantom_epoch, ix_last, mainvars,
                 rndvars, hvars>>

\* ------------------------------------------------------ keys of the handler
\* Key building (index.h build_key, build_key_from_mysql_record; ha_db20xx.cc
\* build_key_from_mysql_key) and the index reads of one handler on one thread
\* (index_read_map, index_next).  A table of NumKeyParts columns carries one
\* index over all of them; the key image the host hands to index_read_map, the
\* Field accessors, the thread's key container and the Table calls behind the
\* reads are not part of the source tree.

HA_READ_KEY_EXACT == "HA_READ_KEY_EXACT"
HA_READ_KEY_OR_NEXT == "HA_READ_KEY_OR_NEXT"
HA_READ_KEY_OR_PREV == "HA_READ_KEY_OR_PREV"
HA_READ_AFTER_KEY == "HA_READ_AFTER_KEY"
HA_READ_BEFORE_KEY == "HA_READ_BEFORE_KEY"

\* the find flags index_read_map handles (any other flag: assert(false))
FindFlags == {HA_READ_KEY_EXACT, HA_READ_KEY_OR_NEXT, HA_READ_KEY_OR_PREV,
              HA_READ_AFTER_KEY, HA_READ_BEFORE_KEY}

\* the thread the handler runs on
HandlerThread == 1

\* column types: fixed length, variable length, fixed length and nullable
PartTypes == {"char", "varchar", "char_null"}

\* bytes of the key image that carry a length (my_base.h) / the null flag
HA_KEY_BLOB_LENGTH == 2
HA_KEY_NULL_LENGTH == 1

\* KEY_PART_INFO::length and KEY_PART_INFO::store_length of a key part
key_part_length(ty) == IF ty = "varchar" THEN MaxVarLen ELSE CharLen

key_part_store_length(ty) ==
  key_part_length(ty) + (IF ty = "varchar" THEN HA_KEY_BLOB_LENGTH
                         ELSE IF ty = "char_null" THEN HA_KEY_NULL_LENGTH ELSE 0)

\* KeyInfo::key_parts: the fields of the key, in key order (KEY (f2, f1))
keyinfo_key_parts == <<2, 1>>

\* the key part a field is used in
PartOfField(f) == CHOOSE i \in 1..NumKeyParts : keyinfo_key_parts[i] = f

\* the byte strings a column holds
FieldValues(ty) ==
  IF ty = "varchar" THEN UNION {[1..n -> 1..MaxVarByte] : n \in 0..MaxVarLen}
  ELSE [1..CharLen -> 1..MaxByte]

\* the rows of the table: one byte string per field
HandlerRecords ==
  {r \in [1..NumKeyParts -> FieldValues("varchar") \cup FieldValues("char")] :
     \A f \in 1..NumKeyParts : r[f] \in FieldValues(key_info[PartOfField(f)])}

\* the values of a search key over the first k key parts: one byte string per
\* part
KeyValues(k) ==
  {v \in [1..k -> FieldValues("varchar") \cup FieldValues("char")] :
     \A i \in 1..k : v[i] \in FieldValues(key_info[i])}

\* Field::get_field_data / Field::get_mysql_field_data: the bytes of field i
\* (data_len is their number)
get_field_data(record, i) == record[i]

get_mysql_field_data(mysql_record, i) == mysql_record[i]

\* mutant of build_key_loop: a field is put in front of the bytes built so far
RECURSIVE build_key_loop_Prepend(_, _, _, _)
build_key_loop_Prepend(record, key_parts, key_data, mysql) ==
  IF key_parts = <<>> THEN key_data
  ELSE LET i == Head(key_parts)
           field_data == IF mysql THEN get_mysql_field_data(record, i)
                         ELSE get_field_data(record, i)
       IN build_key_loop_Prepend(record, Tail(key_parts), field_data \o key_data, mysql)

\* for (auto i : keyinfo_.key_parts) { memcpy(key_cursor, field_data, data_len);
\* key_cursor += data_len; key_len += data_len; }
RECURSIVE build_key_loop(_, _, _, _)
build_key_loop(record, key_parts, key_data, mysql) ==
  IF key_parts = <<>> THEN key_data
  ELSE LET i == Head(key_parts)
           field_data == IF mysql THEN get_mysql_field_data(record, i)
                         ELSE get_field_data(record, i)
       IN build_key_loop(record, Tail(key_parts), key_data \o field_data, mysql)

\* Index::build_key on the fields of a stored record (output_key.len is the
\* length of the result)
Index_build_key(record) == build_key_loop(record, keyinfo_key_parts, <<>>, FALSE)

\* Index::build_key_from_mysql_record
build_key_from_mysql_record(mysql_record) ==
  build_key_loop(mysql_record, keyinfo_key_parts, <<>>, TRUE)

\* ThreadContext::get_key_container: one buffer per thread, as long as the
\* longest key
KeyContainerLen == NumKeyParts * MaxVarLen

\* the container after a key was built at its start: bytes behind the key stay
StoreKey(key) == key \o SubSeq(key_container, Len(key) + 1, KeyContainerLen)

\* Key (typedef Str Key): a pointer and a length, no bytes of its own
NullKey == [s |-> "null", len |-> 0]

KeyInContainer(key) == [s |-> "key_container", len |-> Len(key)]

\* the bytes a Key denotes when it is read
KeyBytes(k) == IF k.s = "null" THEN <<>> ELSE SubSeq(key_container, 1, k.len)

\* the key image of one key part as the host lays it out (key_copy): a null
\* byte for a nullable part, a two-byte little-endian length for a variable
\* part, then the data padded to the length of the part
mysql_key_part(ty, v) ==
  LET pad == [i \in 1..(key_part_length(ty) - Len(v)) |-> 0]
  IN (IF ty = "char_null" THEN <<0>>
      ELSE IF ty = "varchar" THEN <<Len(v) % 256, Len(v) \div 256>> ELSE <<>>)
     \o v \o pad

\* the key image of the first k key parts of a search key
RECURSIVE key_copy(_, _)
key_copy(vals, k) ==
  IF k = 0 THEN <<>>
  ELSE key_copy(vals, k - 1) \o mysql_key_part(key_info[k], vals[k])

\* memcpy(&part_len, mysql_key, len_bytes) into a zeroed uint
RECURSIVE LittleEndian(_)
LittleEndian(bytes) ==
  IF bytes = <<>> THEN 0 ELSE Head(bytes) + 256 * LittleEndian(Tail(bytes))

\* the prefix masks the host passes: the first k key parts, or more bits than
\* the key has parts (HA_WHOLE_KEY sets every bit)
KeypartMaps == {2^k - 1 : k \in 1..(NumKeyParts + 1)}

\* the number of key parts a prefix mask 2^k - 1 names
RECURSIVE MapBits(_)
MapBits(keypart_map) == IF keypart_map = 0 THEN 0 ELSE 1 + MapBits(keypart_map \div 2)

\* while (key_part < end_key_part && keypart_map) { ... } of
\* build_key_from_mysql_key: key_part is the position of the part, p the bytes
\* written to the container
RECURSIVE mysql_key_loop(_, _, _, _)
mysql_key_loop(key_part, keypart_map, mysql_key, p) ==
  IF ~(key_part <= NumKeyParts /\ keypart_map # 0)
  THEN [key |-> p, used_key_part_num |-> key_part - 1]
  ELSE LET length == key_part_length(key_info[key_part])
           store_length == key_part_store_length(key_info[key_part])
       IN IF store_length = length
          THEN mysql_key_loop(key_part + 1, keypart_map \div 2,
                              SubSeq(mysql_key, length + 1, Len(mysql_key)),
                              p \o SubSeq(mysql_key, 1, length))
          ELSE LET len_bytes == store_length - length
                   part_len == LittleEndian(SubSeq(mysql_key, 1, len_bytes))
                   data == SubSeq(mysql_key, len_bytes + 1, Len(mysql_key))
               IN mysql_key_loop(key_part + 1, keypart_map \div 2,
                                 SubSeq(data, length + 1, Len(data)),
                                 p \o SubSeq(data, 1, part_len))

\* ha_db20xx::build_key_from_mysql_key: the key bytes and full_key_search
build_key_from_mysql_key(mysql_key, keypart_map) ==
  LET r == mysql_key_loop(1, keypart_map, mysql_key, <<>>)
  IN [key |-> r.key, full_key_search |-> r.used_key_part_num = NumKeyParts]

\* what the Table reads behind index_read_map / index_next may report: a record,
\* no record (key absent, range exhausted, nothing visible), or an abort
TableReads ==
  {[code |-> DB20XX_SUCCESS, record |-> r] : r \in 1..MaxHandlerRows}
  \cup {[code |-> c, record |-> NoHead] : c \in {DB20XX_KEY_NOT_EXIST, DB20XX_ABORT}}

\* mutant of index_read_map_call: HA_READ_AFTER_KEY includes the start key
index_read_map_call_AfterIncl(full_key_search, find_flag) ==
  IF ~full_key_search THEN [fn |-> "index_prefix_key_search", emit |-> FALSE]
  ELSE IF find_flag = HA_READ_KEY_EXACT
  THEN [fn |-> "get_record_from_index", emit |-> FALSE]
  ELSE IF find_flag = HA_READ_KEY_OR_NEXT
  THEN [fn |-> "index_scan_range_first", emit |-> TRUE]
  ELSE IF find_flag = HA_READ_AFTER_KEY
  THEN [fn |-> "index_scan_range_first", emit |-> TRUE]
  ELSE IF find_flag = HA_READ_KEY_OR_PREV
  THEN [fn |-> "index_rscan_range_first", emit |-> TRUE]
  ELSE [fn |-> "index_rscan_range_first", emit |-> FALSE]

\* index_read_map: the Table call chosen, and its emit_firstkey argument
index_read_map_call(full_key_search, find_flag) ==
  IF ~full_key_search THEN [fn |-> "index_prefix_key_search", emit |-> FALSE]
  ELSE IF find_flag = HA_READ_KEY_EXACT
  THEN [fn |-> "get_record_from_index", emit |-> FALSE]
  ELSE IF find_flag = HA_READ_KEY_OR_NEXT
  THEN [fn |-> "index_scan_range_first", emit |-> TRUE]
  ELSE IF find_flag = HA_READ_AFTER_KEY
  THEN [fn |-> "index_scan_range_first", emit |-> FALSE]
  ELSE IF find_flag = HA_READ_KEY_OR_PREV
  THEN [fn |-> "index_rscan_range_first", emit |-> TRUE]
  ELSE [fn |-> "index_rscan_range_first", emit |-> FALSE]

\* the mode of the scan a Table call positions or advances masstree_scan_stack_
\* in; get_record_from_index is not handed the stack
StackMode(fn) ==
  IF fn \in {"index_scan_range_first", "index_scan_range_next"} THEN "fwd"
  ELSE IF fn \in {"index_rscan_range_first", "index_rscan_range_next"} THEN "rev"
  ELSE IF fn \in {"index_prefix_key_search", "index_prefix_search_next"}
  THEN "prefix"
  ELSE ""

\* the stack after a Table call of index_read_map: positioned afresh in the
\* mode of the call, or left as it was
StackFirst(fn, read) ==
  IF StackMode(fn) = "" THEN masstree_scan_stack_
  ELSE [NoStack EXCEPT !.dir = StackMode(fn),
                       !.no_value = read.code # DB20XX_SUCCESS]

\* the stack after a Table call of index_next: moved on from where it stood
StackNext(read) ==
  [masstree_scan_stack_ EXCEPT !.no_value = read.code # DB20XX_SUCCESS]

\* index_next: 0 on DB20XX_SUCCESS, HA_ERR_KEY_NOT_FOUND on anything else
index_next_ret(found) ==
  IF found = DB20XX_SUCCESS THEN HA_OK ELSE HA_ERR_KEY_NOT_FOUND

\* index_next: switch (scan_direction_)
index_next_call(scan_direction) ==
  IF scan_direction \in {HA_READ_KEY_OR_NEXT, HA_READ_AFTER_KEY}
  THEN "index_scan_range_next"
  ELSE IF scan_direction \in {HA_READ_KEY_OR_PREV, HA_READ_BEFORE_KEY}
  THEN "index_rscan_range_next"
  ELSE "index_prefix_search_next"

\* mutant of set_current_record: the record pointer is stored whatever the read
\* reported
set_current_record_Always(found, record, current) == record

\* index_read_map / index_next: if (found == DB20XX_SUCCESS) current_record_ =
\* record
set_current_record(found, record, current) ==
  IF found = DB20XX_SUCCESS THEN record ELSE current

\* history of the handler: the last call (op), the Table call it made with the
\* key bytes and flag it passed, what the Table reported and what the handler
\* returned; the last key build (fn, input, kpm, out); and the flag, full_key_search
\* and key bytes of the last index_read_map, with the mode in which it
\* positioned the scan stack ("" if it did not); and the record the last read
\* handed out
NoH == [op |-> "", call |-> "", key |-> <<>>, emit |-> FALSE, found |-> "",
        ret |-> "", fn |-> "", input |-> <<>>, kpm |-> 0, out |-> <<>>,
        flag |-> "", full |-> FALSE, built |-> <<>>, stack_by |-> "",
        rec |-> NoHead]

ha_db20xx_index_read_map(vals, keypart_map, find_flag, read) ==
  \E b \in {build_key_from_mysql_key(key_copy(vals, Len(vals)), keypart_map)} :
  LET call == index_read_map_call(b.full_key_search, find_flag)
  IN /\ b.full_key_search \/ find_flag = HA_READ_KEY_EXACT
     /\ scan_direction_' = find_flag
     /\ key_container' = StoreKey(b.key)
     /\ index_key_' = KeyInContainer(b.key)
     /\ current_record_' = [current_record_ EXCEPT ![HandlerThread] =
                              set_current_record(read.code, read.record, @)]
     /\ h_last' = [op |-> "index_read_map", call |-> call.fn, key |-> b.key,
                   emit |-> call.emit, found |-> read.code,
                   ret |-> index_read_map_ret(read.code),
                   fn |-> "build_key_from_mysql_key",
                   input |-> vals, kpm |-> keypart_map, out |-> b.key,
                   flag |-> find_flag, full |-> b.full_key_search,
                   built |-> b.key, stack_by |-> StackMode(call.fn),
                   rec |-> read.record]
     /\ masstree_scan_stack_' = StackFirst(call.fn, read)
     /\ UNCHANGED <<engine, host, last, inserts, key_info, masstree_, leaf_lock,
                    put_pc, phantom_epoch, ix_last, rndvars, rd>>

ha_db20xx_index_next(read) ==
  LET call == index_next_call(scan_direction_)
  IN /\ scan_direction_ \in FindFlags
     /\ current_record_' = [current_record_ EXCEPT ![HandlerThread] =
                              set_current_record(read.code, read.record, @)]
     /\ h_last' = [h_last EXCEPT
                     !.op = "index_next", !.call = call, !.emit = FALSE,
                     !.key = IF call = "index_prefix_search_next"
                             THEN KeyBytes(index_key_) ELSE <<>>,
                     !.found = read.code, !.ret = index_next_ret(read.code),
                     !.rec = read.record]
     /\ masstree_scan_stack_' = StackNext(read)
     /\ UNCHANGED <<engine, host, last, inserts, key_info, key_container,
                    index_key_, scan_direction_, masstree_, leaf_lock, put_pc,
                    phantom_epoch, ix_last, rndvars, rd>>

\* write_row: Table::insert_record_from_mysql builds the key of the new row for
\* the index in the thread's key container (what the insert reports is left to
\* write_row of the engine above)
ha_db20xx_write_row(sl_record) ==
  \E key \in {build_key_from_mysql_record(sl_record)} :
     /\ key_container' = StoreKey(key)
     /\ h_last' = [h_last EXCEPT
                     !.op = "write_row", !.call = "insert_record_from_mysql",
                     !.emit = FALSE, !.key = key, !.found = "", !.ret = "",
                     !.fn = "build_key_from_mysql_record", !.input = sl_record,
                     !.out = key]
     /\ UNCHANGED <<mainvars, key_info, index_key_, scan_direction_, ixvars,
                    rndvars, rd>>

\* update_row: Table::update_record_from_mysql builds the key of the stored
\* record of current_record_ to find its index entry
ha_db20xx_update_row(record) ==
  \E key \in {Index_build_key(record)} :
     /\ current_record_[HandlerThread] # NoHead
     /\ key_container' = StoreKey(key)
     /\ h_last' = [h_last EXCEPT
                     !.op = "update_row", !.call = "update_record_from_mysql",
                     !.emit = FALSE, !.key = key, !.found = "", !.ret = "",
                     !.fn = "build_key", !.input = record, !.out = key]
     /\ UNCHANGED <<mainvars, key_info, index_key_, scan_direction_, ixvars,
                    rndvars, rd>>

\* ------------------------------------------------------------ specification
\* the transactional engine and the host before the first statement
EngineInit ==
  /\ heads = <<>>
  /\ index = [k \in Keys |-> NoHead]
  /\ clock = 0
  /\ status = [t \in Threads |-> IDLE]
  /\ abortPending = [t \in Threads |-> FALSE]
  /\ start_ts = [t \in Threads |-> NoTxn]
  /\ current_record_ = [t \in Threads |-> NoHead]
  /\ phase = [t \in Threads |-> "none"]
  /\ multi = [t \in Threads |-> FALSE]
  /\ regStmt = [t \in Threads |-> FALSE]
  /\ regAll = [t \in Threads |-> FALSE]
  /\ last = NoCall
  /\ inserts = [k \in Keys |-> [ok |-> 0, dup |-> 0]]

\* an empty index with no call in progress
IxInit ==
  /\ masstree_ = [k \in IxKeys |-> NoSlot]
  /\ leaf_lock = 0
  /\ put_pc = [t \in Threads |-> PutIdle]
  /\ phantom_epoch = 0
  /\ masstree_scan_stack_ = NoStack
  /\ ix_last = [op |-> "", key |-> <<>>, found |-> FALSE, head |-> NoHead,
                out0 |-> NoHead, stored |-> [k \in IxKeys |-> NoHead],
                scan |-> NoScan]

\* no full scan opened
RndInit ==
  /\ seq_scan_cursor_ = 0
  /\ rnd_last = NoRnd

\* a handler that has read no index yet, over a key of the given part types
HandlerInit(types) ==
  /\ key_info = types
  /\ key_container = [i \in 1..KeyContainerLen |-> 0]
  /\ index_key_ = NullKey
  /\ scan_direction_ = ""
  /\ h_last = NoH

\* no index read in progress
RdInit == rd = NoRd

Init ==
  /\ EngineInit /\ IxInit /\ RndInit
  /\ HandlerInit([i \in 1..NumKeyParts |-> "char"]) /\ RdInit

Next ==
  \E t \in Threads :
    \/ \E lock_type \in LockTypes, mode \in BOOLEAN : external_lock(t, lock_type, mode)
    \/ \E sl_record \in Records : write_row(t, sl_record)
    \/ \E key \in Keys : index_read_map(t, key)
    \/ \E val \in Vals : update_row(t, val)
    \/ delete_row(t)
    \/ \E all \in BOOLEAN : db20xx_commit(t, all)
    \/ \E all \in BOOLEAN : db20xx_rollback(t, all)

Spec == Init /\ [][Next]_vars

\* point operations of one index: puts by every thread, gets by the handler
NextIndex ==
  \/ \E t \in Threads, key \in IxKeys, vchain_head \in IxHeads :
       put_find_insert(t, key, vchain_head)
  \/ \E t \in Threads : put_apply_put(t)
  \/ \E t \in Threads : put_finish(t)
  \/ \E key \in IxKeys, out0 \in IxHeads \cup {NoHead} : MasstreeIndex_get(key, out0)

SpecIndex == Init /\ [][NextIndex]_vars

\* range operations of one index: puts by every thread, one cursor of the handler
NextIndexScan ==
  \/ \E t \in Threads, key \in IxKeys, vchain_head \in IxHeads :
       put_find_insert(t, key, vchain_head)
  \/ \E t \in Threads : put_apply_put(t)
  \/ \E t \in Threads : put_finish(t)
  \/ \E key \in IxKeys, emit_firstkey \in BOOLEAN : scan_range_first(key, emit_firstkey)
  \/ scan_range_next
  \/ \E key \in IxKeys, emit_firstkey \in BOOLEAN : rscan_range_first(key, emit_firstkey)
  \/ rscan_range_next

SpecIndexScan == Init /\ [][NextIndexScan]_vars

\* a version of row i: its record, and who created / deleted it when
ScanNode(i, val, creator, cts, deleter, dts) ==
  [rec |-> <<i, val>>, creator |-> creator, cts |-> cts, deleter |-> deleter,
   dts |-> dts]

\* the chains row i of a table may have: inserted and committed, then possibly
\* deleted (committed or not) or updated (committed or not), or inserted and not
\* committed; uncommitted versions and markers belong to the last thread
ScanChains(i) ==
  LET u == NumThreads
      T == 1..MaxScanTs
  IN {<<ScanNode(i, 1, NoTxn, c, NoTxn, NoTxn)>> : c \in T}
     \cup {<<ScanNode(i, 1, NoTxn, x[1], NoTxn, x[2])>> :
              x \in {y \in T \X T : y[1] <= y[2]}}
     \cup {<<ScanNode(i, 1, NoTxn, c, u, NoTxn)>> : c \in T}
     \cup {<<ScanNode(i, 1, u, NoTxn, NoTxn, NoTxn)>>}
     \cup {<<ScanNode(i, 2, u, NoTxn, NoTxn, NoTxn),
              ScanNode(i, 1, NoTxn, c, NoTxn, NoTxn)>> : c \in T}
     \cup {<<ScanNode(i, 2, NoTxn, x[2], NoTxn, NoTxn),
              ScanNode(i, 1, NoTxn, x[1], NoTxn, NoTxn)>> :
              x \in {y \in T \X T : y[1] < y[2]}}

\* a table of up to MaxScanRows rows; row i has key i and is head i
ScanTables ==
  UNION {{tbl \in [1..n -> UNION {ScanChains(i) : i \in 1..n}] :
            \A i \in 1..n : tbl[i] \in ScanChains(i)} : n \in 0..MaxScanRows}

\* a statement of every thread is open on a table of committed and uncommitted
\* rows, the threads having begun at the same commit order; no scan has been
\* opened
InitScan ==
  /\ heads \in ScanTables
  /\ index = [k \in 1..Len(heads) |-> k]
  /\ clock = MaxScanTs
  /\ status = [t \in Threads |-> ACTIVE]
  /\ abortPending = [t \in Threads |-> FALSE]
  /\ start_ts \in {[t \in Threads |-> s] : s \in 0..MaxScanTs}
  /\ current_record_ = [t \in Threads |-> NoHead]
  /\ phase = [t \in Threads |-> "stmt"]
  /\ multi = [t \in Threads |-> FALSE]
  /\ regStmt = [t \in Threads |-> TRUE]
  /\ regAll = [t \in Threads |-> FALSE]
  /\ last = NoCall
  /\ inserts = [k \in Keys |-> [ok |-> 0, dup |-> 0]]
  /\ IxInit
  /\ seq_scan_cursor_ = 0
  /\ rnd_last = NoRnd
  /\ HandlerInit([i \in 1..NumKeyParts |-> "char"]) /\ RdInit

NextScan ==
  \E t \in Threads :
    \/ rnd_init(t)
    \/ \E fail \in RndFails : rnd_next(t, fail)

SpecScan == InitScan /\ [][NextScan]_vars

\* one handler reading and writing through an index over a fixed-length and a
\* variable-length key part
InitHandler ==
  /\ EngineInit /\ IxInit /\ RndInit /\ RdInit
  /\ HandlerInit(<<"char", "varchar">>)

NextHandler ==
  \/ \E keypart_map \in {m \in KeypartMaps : MapBits(m) <= NumKeyParts},
        find_flag \in FindFlags, read \in TableReads :
       \E vals \in KeyValues(Min({MapBits(keypart_map), NumKeyParts})) :
         ha_db20xx_index_read_map(vals, keypart_map, find_flag, read)
  \/ \E read \in TableReads : ha_db20xx_index_next(read)
  \/ \E sl_record \in HandlerRecords : ha_db20xx_write_row(sl_record)
  \/ \E record \in HandlerRecords : ha_db20xx_update_row(record)

SpecHandler == InitHandler /\ [][NextHandler]_vars

\* key building through one handler, over every choice of key part types: exact
\* reads with a key prefix or the full key, inserts and updates
InitKey ==
  /\ EngineInit /\ IxInit /\ RndInit /\ RdInit
  /\ \E types \in [1..NumKeyParts -> PartTypes] : HandlerInit(types)

NextKey ==
  \/ \E keypart_map \in KeypartMaps, read \in TableReads :
       \E vals \in KeyValues(Min({MapBits(keypart_map), NumKeyParts})) :
         ha_db20xx_index_read_map(vals, keypart_map, HA_READ_KEY_EXACT, read)
  \/ \E sl_record \in HandlerRecords : ha_db20xx_write_row(sl_record)
  \/ \E record \in HandlerRecords : ha_db20xx_update_row(record)

SpecKey == InitKey /\ [][NextKey]_vars

\* the chains row i may have when a handler starts reading and changing rows:
\* committed at some commit order, or inserted by the other thread and not
\* committed
RowChains(i) ==
  {c \in ScanChains(i) : Len(c) = 1 /\ c[1].deleter = NoTxn /\ c[1].dts = NoTxn}

\* one handler reading rows through the full scan and through the index, and
\* updating and deleting the row it read, on a table of MaxRows rows; every
\* statement is open
InitRow ==
  /\ heads \in {tbl \in ScanTables : /\ Len(tbl) = MaxRows
                                      /\ \A i \in 1..MaxRows : tbl[i] \in RowChains(i)}
  /\ index = [k \in Keys |-> k]
  /\ clock = MaxScanTs
  /\ status = [t \in Threads |-> ACTIVE]
  /\ abortPending = [t \in Threads |-> FALSE]
  /\ start_ts \in {[t \in Threads |-> s] : s \in 0..MaxScanTs}
  /\ current_record_ = [t \in Threads |-> NoHead]
  /\ phase = [t \in Threads |-> "stmt"]
  /\ multi = [t \in Threads |-> FALSE]
  /\ regStmt = [t \in Threads |-> TRUE]
  /\ regAll = [t \in Threads |-> FALSE]
  /\ last = NoCall
  /\ inserts = [k \in Keys |-> [ok |-> 0, dup |-> 0]]
  /\ IxInit /\ RndInit /\ RdInit
  /\ HandlerInit([i \in 1..NumKeyParts |-> "char"])

NextRow ==
  \/ rnd_init(HandlerThread)
  \/ \E fail \in RndFails : rnd_next(HandlerThread, fail)
  \/ \E find_flag \in {HA_READ_KEY_EXACT, HA_READ_KEY_OR_NEXT}, read \in TableReads :
       ha_db20xx_index_read_map([i \in 1..NumKeyParts |-> <<1>>],
                                2^NumKeyParts - 1, find_flag, read)
  \/ \E read \in TableReads : ha_db20xx_index_next(read)
  \/ \E val \in Vals : update_row(HandlerThread, val)
  \/ delete_row(HandlerThread)

SpecRow == InitRow /\ [][NextRow]_vars

\* reads of one index step by step, next to the puts of every thread; a thread
\* that is scheduled again and again takes its next step, so a put that holds
\* the latch finishes and a read goes on
NextIndexLive ==
  \/ \E t \in Threads, key \in LiveKeys : put_find_insert(t, key, 1)
  \/ \E t \in Threads : put_apply_put(t)
  \/ \E t \in Threads : put_finish(t)
  \/ \E op \in {"get", "scan_range_first", "rscan_range_first"}, key \in LiveKeys,
        emit_firstkey \in BOOLEAN :
       (op = "get" => ~emit_firstkey) /\ rd_call(op, key, emit_firstkey)
  \/ \E op \in {"scan_range_next", "rscan_range_next"} : rd_call(op, <<>>, FALSE)
  \/ rd_stable
  \/ rd_read
  \/ rd_check

SpecIndexLive ==
  /\ Init /\ [][NextIndexLive]_vars
  /\ \A t \in Threads : WF_vars(put_apply_put(t)) /\ WF_vars(put_finish(t))
  /\ WF_vars(rd_stable) /\ WF_vars(rd_read) /\ WF_vars(rd_check)

\* ----------------------------------------------------------------- claims
Nodes(hs) == UNION {{<<h, i>> : i \in 1..Len(hs[h])} : h \in DOMAIN hs}

\* the transactions holding an uncommitted node or deletion marker on a chain
Writers(chain) ==
  ({chain[i].creator : i \in 1..Len(chain)} \cup
   {chain[i].deleter : i \in 1..Len(chain)}) \ {NoTxn}

\* no node created by t and no deletion marker set by t is left in hs
NoTraceOf(t, hs) ==
  \A x \in Nodes(hs) : hs[x[1]][x[2]].creator # t /\ hs[x[1]][x[2]].deleter # t

\* what a reader with snapshot point s finds of a row: on its chain, and through
\* the index by the row's key
RowRead(chain, s) ==
  LET r == ReadChain(chain, s)
  IN [found |-> r.code = DB20XX_SUCCESS, rec |-> r.rec]

KeyRead(idx, hs, key, s) ==
  LET g == index_get_record(idx, hs, key, s)
  IN [found |-> g.code = DB20XX_SUCCESS, rec |-> g.rec]

Absent == [found |-> FALSE, rec |-> <<>>]

\* the step is a db20xx_commit / db20xx_rollback call of thread t
CommitStep(t) == last'.thr = t /\ last'.op = "db20xx_commit"
RollbackStep(t) == last'.thr = t /\ last'.op = "db20xx_rollback"

\* C1: snapshot isolation.  For every on-going transaction T2 and every version
\* n: if n's writer has not committed at or before T2's snapshot point, neither the
\* point get nor the table scan of T2 returns n; if n is the version the chain read
\* rule gives T2 (its writer committed before T2 began and nothing visible to T2
\* supersedes or deletes it), both the point get on n's key and the table scan
\* return n.
C1_SnapshotIsolation ==
  \A t \in Threads : status[t] = ACTIVE =>
    \A x \in Nodes(heads) :
      LET h == x[1]
          n == heads[h][x[2]]
          g == get_record_from_index(t, build_key(n.rec))
          c == ReadChain(heads[h], start_ts[t])
          got == g.code = DB20XX_SUCCESS /\ g.head = h /\ g.pos = x[2]
          scanned == h \in table_scan_rows(t) /\ c.pos = x[2]
      IN /\ ~Visible(n, start_ts[t]) => ~got /\ ~scanned
         /\ (c.code = DB20XX_SUCCESS /\ c.pos = x[2]) => got /\ scanned

C3_Uniqueness ==
  \A k \in Keys :
    /\ inserts[k].ok <= 1
    /\ inserts[k].ok + inserts[k].dup >= 1 => inserts[k].ok = 1
    /\ inserts[k].ok = 1 <=> index[k] # NoHead

\* C3 witness: two inserts of the same key, one success and one KeyExists
C3_Witness == \E k \in Keys : inserts[k].ok = 1 /\ inserts[k].dup = 1

\* C4: an insert that fails with KeyExists changes no state: the index maps every
\* key to the head it mapped to before, and no existing chain is changed.
C4_KeyExistsChangesNothing ==
  [][(\E k \in Keys : inserts'[k].dup > inserts[k].dup) =>
       /\ index' = index
       /\ \A h \in DOMAIN heads : heads'[h] = heads[h]]_vars

\* C5: abort undoes everything.  After db20xx_rollback has aborted, or db20xx_commit
\* has answered a pending conflict with HA_ERR_LOCK_DEADLOCK, the transaction is
\* IDLE, none of its nodes is linked, none of its deletion markers is set, every
\* chain reads under every snapshot point as it read before the call, and every
\* row the transaction had written that existed before it began is found through
\* the index, by its key, exactly as its chain reads.
C5_AbortUndoesEverything ==
  [][\A t \in Threads :
       (status[t] = ACTIVE /\
        \/ CommitStep(t) /\ last'.ret = HA_ERR_LOCK_DEADLOCK
        \/ RollbackStep(t) /\ last'.note = "abort") =>
         /\ status'[t] = IDLE
         /\ ~abortPending'[t]
         /\ NoTraceOf(t, heads')
         /\ DOMAIN heads' = DOMAIN heads
         /\ \A h \in DOMAIN heads : \A s \in 0..MaxClock :
              RowRead(heads'[h], s) = RowRead(heads[h], s)
         /\ \A h \in DOMAIN heads : (t \in Writers(heads[h]) /\ heads'[h] # <<>>) =>
              \A s \in 0..MaxClock :
                KeyRead(index', heads', build_key(heads'[h][1].rec), s) =
                  RowRead(heads'[h], s)]_vars

\* C6: a transaction in the ABORT-PENDING condition never commits: a db20xx_commit
\* call (all = TRUE or FALSE) on it performs abort(), hands out no commit order,
\* leaves none of its versions behind and returns HA_ERR_LOCK_DEADLOCK; and the
\* condition is left in no other way than by an abort.
C6_PendingNeverCommits ==
  [][\A t \in Threads : abortPending[t] =>
       /\ CommitStep(t) =>
            /\ last'.ret = HA_ERR_LOCK_DEADLOCK
            /\ last'.note = "abort"
       /\ (CommitStep(t) \/ ~abortPending'[t]) =>
            /\ status'[t] = IDLE
            /\ clock' = clock
            /\ NoTraceOf(t, heads')]_vars

\* C6 witness: a session-level commit (all = TRUE) met a pending conflict
C6_Witness ==
  last.op = "db20xx_commit" /\ last.all /\ last.ret = HA_ERR_LOCK_DEADLOCK

\* C7: delete-then-snapshot.  For a row whose newest version carries a committed
\* deletion: a transaction whose snapshot point is at or after the deletion's
\* commit finds the row absent by point get and by table scan; a transaction whose
\* snapshot point is before it, and at or after the version's creation, reads the
\* pre-delete contents by point get and by table scan.
C7_DeleteThenSnapshot ==
  \A t \in Threads : status[t] = ACTIVE =>
    \A h \in DOMAIN heads : (heads[h] # <<>> /\ heads[h][1].dts # NoTxn) =>
      LET n == heads[h][1]
          g == get_record_from_index(t, build_key(n.rec))
      IN /\ start_ts[t] >= n.dts =>
              g.code # DB20XX_SUCCESS /\ h \notin table_scan_rows(t)
         /\ (n.cts <= start_ts[t] /\ start_ts[t] < n.dts) =>
              /\ g.code = DB20XX_SUCCESS /\ g.rec = n.rec
              /\ h \in table_scan_rows(t)

\* C8: statement versus session scope.  A db20xx_commit or db20xx_rollback call with
\* all = FALSE in multi-statement mode, no conflict pending, leaves the
\* transaction as it is (still ACTIVE, no chain changed, no commit order handed
\* out); a transaction ends only on a call with all = TRUE, on a call outside
\* multi-statement mode, or on a commit call that finds a pending conflict.
C8_StatementVsSessionScope ==
  [][\A t \in Threads :
       /\ ((CommitStep(t) \/ RollbackStep(t)) /\ ~last'.all /\ multi[t]
             /\ ~abortPending[t]) =>
            /\ status'[t] = status[t]
            /\ heads' = heads
            /\ clock' = clock
       /\ (status[t] = ACTIVE /\ status'[t] = IDLE) =>
            /\ CommitStep(t) \/ RollbackStep(t)
            /\ last'.all \/ ~multi[t] \/ (abortPending[t] /\ CommitStep(t))]_vars

C10_CommitAlwaysSucceeds ==
  [][\A t \in Threads :
       (CommitStep(t) /\ last'.note = "commit" /\ status[t] = ACTIVE) =>
         /\ ~abortPending[t]
         /\ last'.ret = HA_OK
         /\ status'[t] = IDLE
         /\ clock' = clock + 1
         /\ DOMAIN heads' = DOMAIN heads
         /\ \A x \in Nodes(heads) :
              LET n == heads[x[1]][x[2]]
                  m == heads'[x[1]][x[2]]
              IN /\ n.creator = t => m.creator = NoTxn /\ m.cts = clock'
                 /\ n.deleter = t => m.deleter = NoTxn /\ m.dts = clock'
         /\ \A h \in DOMAIN heads : t \in Writers(heads[h]) =>
              \A s \in clock'..MaxClock :
                /\ RowRead(heads'[h], s) =
                     IF heads'[h][1].dts # NoTxn THEN Absent
                     ELSE [found |-> TRUE, rec |-> heads'[h][1].rec]
                /\ KeyRead(index', heads', build_key(heads'[h][1].rec), s) =
                     RowRead(heads'[h], s)]_vars

\* index_next: DB20XX_SUCCESS -> 0, else HA_ERR_KEY_NOT_FOUND

\* ---- index claims
\* a put of key k is between its first and its last step
PutInFlight(k) == \E t \in Threads : put_pc[t].pc # 0 /\ put_pc[t].key = k

\* this step is the return of thread t's put
PutReturns(t) == put_pc[t].pc # 0 /\ put_pc'[t].pc = 0

\* C11: a get of k that no put of k overlaps reports found exactly if some put of
\* k has returned, then yields the head of the most recent such put, and
\* otherwise leaves the caller's output head as it was.
C11_IndexMapSemantics ==
  (ix_last.op = "get" /\ ~PutInFlight(ix_last.key)) =>
    /\ ix_last.found <=> ix_last.stored[ix_last.key] # NoHead
    /\ ix_last.found => ix_last.head = ix_last.stored[ix_last.key]
    /\ ~ix_last.found => ix_last.head = ix_last.out0

\* a get found key <<1, 1>> with the head of its latest put, which is not what
\* the caller's output held
C11_Witness ==
  /\ ix_last.op = "get" /\ ~PutInFlight(ix_last.key)
  /\ ix_last.key = <<1, 1>> /\ ix_last.found
  /\ ix_last.head = MaxIxHead /\ ix_last.out0 # MaxIxHead
  /\ ix_last.stored[<<1>>] # NoHead

\* C12: put returns true when it is the first put of its key (no put of the key
\* had returned before) and false when the key was already present.
C12_PutReturnsFirstPut ==
  [][\A t \in Threads :
       PutReturns(t) => (ix_last'.found <=> ix_last.stored[ix_last'.key] = NoHead)]_vars

InRange(sc) ==
  {k \in IxKeys : /\ ix_last.stored[k] # NoHead
                  /\ \/ sc.emit /\ k = sc.from
                     \/ sc.dir = "fwd" /\ KeyLess(sc.from, k)
                     \/ sc.dir = "rev" /\ KeyLess(k, sc.from)}

\* a comes before b in the scan's direction
Before(dir, a, b) == IF dir = "fwd" THEN KeyLess(a, b) ELSE KeyLess(b, a)

\* this step is a next call on the cursor
NextCall == put_pc' = put_pc /\ ix_last'.op \in {"scan_range_next", "rscan_range_next"}

\* C14: while no key is inserted, the keys a scan has returned are stored keys of
\* its range (from the start key on, the start key itself only if inclusive), in
\* strictly ascending (reverse scan: descending) byte order, none of the range
\* skipped, and once the scan reports no further key they are all of the range;
\* a first call on an empty range reports empty.
C14_ScanOrderAndCompleteness ==
  LET sc == ix_last.scan
      n == Len(sc.keys)
  IN (sc.dir # "" /\ sc.quiet) =>
       /\ \A i \in 1..n : sc.keys[i] \in InRange(sc)
       /\ \A i \in 1..n, j \in 1..n : i < j => Before(sc.dir, sc.keys[i], sc.keys[j])
       /\ \A k \in InRange(sc) :
            (n > 0 /\ Before(sc.dir, k, sc.keys[n])) => \E i \in 1..n : sc.keys[i] = k
       /\ masstree_scan_stack_.no_value => InRange(sc) = {sc.keys[i] : i \in 1..n}

\* a forward scan from <<1>>, inclusive, over three stored keys returned <<1>>,
\* <<1, 1>>, <<2>> and then reported the end
C14_Witness ==
  /\ ix_last.scan.dir = "fwd" /\ ix_last.scan.quiet
  /\ ix_last.scan.from = <<1>> /\ ix_last.scan.emit
  /\ ix_last.scan.keys = << <<1>>, <<1, 1>>, <<2>> >>
  /\ masstree_scan_stack_.no_value /\ ix_last.op = "scan_range_next"

\* C15: a next call on a cursor that is not exhausted returns the nearest key
\* beyond the cursor that is in the index when the call runs, whether it was
\* there when the scan began or was inserted since, and reports the end only if
\* there is none; no key is returned twice.
C15_NoPhantomMissed ==
  [][(NextCall /\ ~masstree_scan_stack_.no_value) =>
       LET dir == masstree_scan_stack_.dir
           ahead == {k \in PresentKeys(masstree_) :
                       Before(dir, masstree_scan_stack_.key, k)}
           keys == ix_last'.scan.keys
       IN /\ IF ahead = {} THEN ~ix_last'.found
             ELSE /\ ix_last'.found
                  /\ ix_last'.key \in ahead
                  /\ \A k \in ahead \ {ix_last'.key} : Before(dir, ix_last'.key, k)
          /\ \A i \in 1..Len(keys), j \in 1..Len(keys) : i < j => keys[i] # keys[j]]_vars

\* a forward scan returned <<1>> first and then <<1, 1>>, which was inserted
\* while the scan was open
C15_Witness ==
  /\ ix_last.op = "scan_range_next" /\ ix_last.found /\ ix_last.key = <<1, 1>>
  /\ ix_last.scan.keys = << <<1>>, <<1, 1>> >>
  /\ ~ix_last.scan.quiet
  /\ ix_last.stored[<<2>>] = NoHead /\ ~PutInFlight(<<2>>)

C17_RoundTrip ==
  \A t \in Threads, h \in DOMAIN heads :
    (/\ status[t] = ACTIVE
     /\ Len(heads[h]) = 1
     /\ Visible(heads[h][1], start_ts[t])
     /\ heads[h][1].deleter = NoTxn /\ heads[h][1].dts = NoTxn) =>
      LET r == get_record_from_index(t, build_key(heads[h][1].rec))
      IN /\ index_read_map_ret(r.code) = HA_OK
         /\ r.rec = heads[h][1].rec

\* this step sets a deletion marker on the newest node of head h
DeleteStep(h) ==
  /\ h \in DOMAIN heads /\ heads[h] # <<>>
  /\ Len(heads') = Len(heads) /\ heads'[h] # <<>>
  /\ heads[h][1].deleter = NoTxn /\ heads'[h][1].deleter # NoTxn

\* C18: a delete changes nothing but the deletion marker of the newest node of
\* the row: the index maps every key to the same head as before, every chain
\* keeps its nodes, and no other field of any node changes.
C18_DeleteLeavesIndexes ==
  [][\A h \in DOMAIN heads :
       DeleteStep(h) =>
         /\ index' = index
         /\ \A g \in DOMAIN heads :
              /\ Len(heads'[g]) = Len(heads[g])
              /\ \A i \in 1..Len(heads[g]) :
                   IF g = h /\ i = 1
                   THEN heads'[g][i] = [heads[g][i] EXCEPT !.deleter = heads'[g][i].deleter]
                   ELSE heads'[g][i] = heads[g][i]]_vars

\* a row carries an uncommitted deletion marker and its key still maps to its
\* head
C18_Witness ==
  \E h \in DOMAIN heads :
    /\ heads[h] # <<>>
    /\ heads[h][1].deleter # NoTxn
    /\ index[build_key(heads[h][1].rec)] = h

\* C19: every row (a head with at least one version) is the head its index entry
\* refers to, so a key's entry never refers to a head other than its row's.
C19_OneHeadPerRow ==
  \A h \in DOMAIN heads :
    heads[h] # <<>> => index[build_key(heads[h][1].rec)] = h

\* ---- full table scan
\* C20: since rnd_init, the rows rnd_next has returned are rows with a visible,
\* undeleted version under the caller's snapshot, in cursor order, each once,
\* and none of those before the cursor is missing; invisible and deleted rows
\* are stepped over one at a time; HA_ERR_END_OF_FILE is returned exactly when
\* the cursor is behind the last row, and then every such row has been returned;
\* a read failure returns HA_ERR_GENERIC, not the end; a call reads each
\* remaining row at most once and so ends.
C20_FullTableScan ==
  LET t == rnd_last.t
      n == Len(rnd_last.rows)
      seen == {rnd_last.rows[i] : i \in 1..n}
      want == {h \in DOMAIN heads :
                 ReadChain(heads[h], start_ts[t]).code = DB20XX_SUCCESS}
  IN seq_scan_cursor_ # 0 =>
       /\ seen \subseteq want
       /\ \A i \in 1..n, j \in 1..n : i < j => rnd_last.rows[i] < rnd_last.rows[j]
       /\ \A h \in want : h < seq_scan_cursor_ => h \in seen
       /\ \A h \in seen : h < seq_scan_cursor_
       /\ seq_scan_cursor_ <= Len(heads) + 1
       /\ rnd_last.ret = HA_ERR_END_OF_FILE =>
            seq_scan_cursor_ = Len(heads) + 1 /\ seen = want
       /\ rnd_last.ret = HA_OK /\ n > 0 => seq_scan_cursor_ = rnd_last.rows[n] + 1
       /\ rnd_last.ret = HA_ERR_GENERIC => seq_scan_cursor_ <= Len(heads)
       /\ rnd_last.steps <= Len(heads) + 1

\* a scan of three rows stepped over an invisible row and a deleted row,
\* returned the third and then the end of the file
C20_Witness ==
  /\ Len(heads) = 3 /\ rnd_last.t = 1
  /\ ReadChain(heads[1], start_ts[1]).code = DB20XX_INVISIBLE_VERSION
  /\ ReadChain(heads[2], start_ts[1]).code = DB20XX_DELETED_VERSION
  /\ rnd_last.rows = <<3>>
  /\ rnd_last.ret = HA_ERR_END_OF_FILE

\* ---- errors, write intent, the chain read rule, the end of a transaction
\* C22: update_row returns success exactly when update_record returned Success;
\* an update that ends in Abort (write-write conflict) is reported as a failure.
C22_UpdateReportsAbort ==
  \A t \in Threads :
    (phase[t] = "stmt" /\ current_record_[t] # NoHead) =>
      LET ret == update_record_ret(t, current_record_[t])
      IN update_row_ret(ret) = HA_OK <=> ret = DB20XX_SUCCESS

\* C24: no chain carries uncommitted nodes or deletion markers of two
\* transactions; an active transaction that writes a chain another transaction
\* holds uncommitted writes on gets Abort, and a step that puts a transaction
\* into the conflict condition leaves every chain as it was.
C24_SingleWriteIntent ==
  [][/\ \A h \in DOMAIN heads' : Cardinality(Writers(heads'[h])) <= 1
     /\ \A t \in Threads :
          /\ \A h \in DOMAIN heads :
               (status[t] = ACTIVE /\ Writers(heads[h]) \ {t} # {}) =>
                 update_record_ret(t, h) = DB20XX_ABORT
          /\ (~abortPending[t] /\ abortPending'[t]) => heads' = heads]_vars

\* a transaction is in the conflict condition on the row it read while another
\* transaction holds the uncommitted write on that row's chain
C24_Witness ==
  \E t \in Threads :
    /\ abortPending[t] /\ current_record_[t] # NoHead
    /\ Writers(heads[current_record_[t]]) \ {t} # {}

\* C26: a chain is ordered newest to oldest (uncommitted nodes ahead of committed
\* ones, commit orders not increasing towards the tail); an update links one node
\* ahead of the newest and leaves the older nodes as they were; a read with
\* snapshot point s returns the first node from the head whose creation is
\* visible under s, provided its deletion marker is unset or not visible under
\* s, and nothing when there is no such node.  (Stated of every chain a step
\* creates or changes; the table starts empty.)
C26_ChainReadRule ==
  [][\A h \in {x \in DOMAIN heads' : x \notin DOMAIN heads \/ heads'[x] # heads[x]} :
       LET chain == heads'[h]
           n == Len(chain)
       IN /\ \A i \in 1..n, j \in 1..n :
               i < j => /\ chain[j].cts = NoTxn => chain[i].cts = NoTxn
                        /\ chain[i].cts # NoTxn => chain[i].cts >= chain[j].cts
          /\ (h \in DOMAIN heads /\ heads[h] # <<>> /\ n = Len(heads[h]) + 1) =>
               Tail(chain) = heads[h] /\ chain[1].cts = NoTxn
          /\ \A s \in 0..MaxClock :
               LET r == RowRead(chain, s)
                   first(i) == /\ Visible(chain[i], s)
                               /\ \A j \in 1..(i - 1) : ~Visible(chain[j], s)
               IN IF r.found
                  THEN \E i \in 1..n : /\ first(i) /\ ~DelVisible(chain[i], s)
                                        /\ r.rec = chain[i].rec
                  ELSE \A i \in 1..n : first(i) => DelVisible(chain[i], s)]_vars

\* an on-going transaction reads the older node of a chain whose newest node is
\* an uncommitted update
C26_Witness ==
  \E h \in DOMAIN heads, t \in Threads :
    /\ Len(heads[h]) = 2 /\ heads[h][1].cts = NoTxn /\ heads[h][2].cts # NoTxn
    /\ status[t] = ACTIVE
    /\ ReadChain(heads[h], start_ts[t]).pos = 2
    /\ heads[h][1].rec # heads[h][2].rec

\* C27: after a db20xx_commit or db20xx_rollback call that ends the unit of work
\* (all = TRUE, or all = FALSE outside multi-statement mode) the transaction is
\* not on-going; an external_lock that then opens a statement begins a
\* transaction with the current commit order as snapshot point and registers
\* it at statement level.
C27_ReturnsToIdle ==
  [][\A t \in Threads :
       /\ ((CommitStep(t) \/ RollbackStep(t)) /\ (last'.all \/ ~multi[t])) =>
            ~on_going(t)'
       /\ (last'.thr = t /\ last'.op = "external_lock" /\ phase[t] = "none"
             /\ phase'[t] = "stmt" /\ ~on_going(t)) =>
            /\ on_going(t)'
            /\ start_ts'[t] = clock
            /\ regStmt'[t]]_vars

\* C21: an index read that ends in an abort is reported by index_read_map and by
\* every later index_next (forward, reverse or prefix) as an error that is
\* neither success nor the result of a key not found / an exhausted range
C21_AbortSurfaced ==
  (h_last.op \in {"index_read_map", "index_next"} /\ h_last.found = DB20XX_ABORT) =>
    h_last.ret \notin {HA_OK, HA_ERR_KEY_NOT_FOUND, HA_ERR_END_OF_FILE}

\* C23: the key index_next hands to the prefix search holds the bytes the
\* preceding index_read_map built, whatever key was built on the thread in
\* between
C23_ScratchKeyIntact ==
  (h_last.op = "index_next" /\ h_last.call = "index_prefix_search_next") =>
    h_last.key = h_last.built

\* C28: index_read_map runs the prefix search for a prefix key (exact reads
\* only), the point get for a full key with HA_READ_KEY_EXACT, a forward scan
\* that includes (KEY_OR_NEXT) or excludes (AFTER_KEY) the start key, a reverse
\* scan that includes (KEY_OR_PREV) or excludes (BEFORE_KEY) it; index_next
\* continues in the direction the last index_read_map recorded
C28_ReadDispatch ==
  /\ h_last.op = "index_read_map" =>
       /\ h_last.full = (Len(h_last.input) = NumKeyParts)
       /\ scan_direction_ = h_last.flag
       /\ h_last.key = KeyBytes(index_key_)
       /\ ~h_last.full =>
            h_last.flag = HA_READ_KEY_EXACT /\ h_last.call = "index_prefix_key_search"
       /\ (h_last.full /\ h_last.flag = HA_READ_KEY_EXACT) =>
            h_last.call = "get_record_from_index"
       /\ (h_last.full /\ h_last.flag = HA_READ_KEY_OR_NEXT) =>
            h_last.call = "index_scan_range_first" /\ h_last.emit
       /\ (h_last.full /\ h_last.flag = HA_READ_AFTER_KEY) =>
            h_last.call = "index_scan_range_first" /\ ~h_last.emit
       /\ (h_last.full /\ h_last.flag = HA_READ_KEY_OR_PREV) =>
            h_last.call = "index_rscan_range_first" /\ h_last.emit
       /\ (h_last.full /\ h_last.flag = HA_READ_BEFORE_KEY) =>
            h_last.call = "index_rscan_range_first" /\ ~h_last.emit
  /\ h_last.op = "index_next" =>
       /\ h_last.flag \in {HA_READ_KEY_OR_NEXT, HA_READ_AFTER_KEY} =>
            h_last.call = "index_scan_range_next"
       /\ h_last.flag \in {HA_READ_KEY_OR_PREV, HA_READ_BEFORE_KEY} =>
            h_last.call = "index_rscan_range_next"
       /\ h_last.flag = HA_READ_KEY_EXACT =>
            h_last.call = "index_prefix_search_next"

\* an index_next after a reverse scan that excluded its start key
C28_Witness ==
  /\ h_last.op = "index_next" /\ h_last.flag = HA_READ_BEFORE_KEY
  /\ h_last.call = "index_rscan_range_next" /\ h_last.found = DB20XX_SUCCESS
  /\ h_last.built # <<>>

\* C29: build_key and build_key_from_mysql_record produce the bytes of the key
\* part fields one after the other in key_parts order, the key length being the
\* sum of the data lengths, and place them at the start of the key container
C29_KeyIsConcatenation ==
  h_last.fn \in {"build_key", "build_key_from_mysql_record"} =>
    LET first == h_last.input[keyinfo_key_parts[1]]
        second == h_last.input[keyinfo_key_parts[2]]
    IN /\ h_last.out = first \o second
       /\ Len(h_last.out) = Len(first) + Len(second)
       /\ SubSeq(key_container, 1, Len(h_last.out)) = h_last.out
       /\ \A r \in HandlerRecords :
            (Index_build_key(r) = h_last.out) <=>
              /\ Len(Index_build_key(r)) = Len(h_last.out)
              /\ \A i \in 1..Len(h_last.out) : Index_build_key(r)[i] = h_last.out[i]

\* a key built from a record whose two key fields differ in length
C29_Witness ==
  /\ h_last.fn = "build_key"
  /\ Len(h_last.input[1]) = 2 /\ Len(h_last.input[2]) = 1
  /\ h_last.out = h_last.input[2] \o h_last.input[1]

\* C30: key construction is injective on the values of the key columns: two
\* rows with different key column values never get the same key, and a full
\* search key never equals the key of a row or of a search with other values
C30_KeyInjective ==
  /\ h_last.fn \in {"build_key", "build_key_from_mysql_record"} =>
       \A r \in HandlerRecords :
         r # h_last.input => build_key_from_mysql_record(r) # h_last.out
  /\ (h_last.fn = "build_key_from_mysql_key" /\ h_last.full) =>
       \A v \in KeyValues(NumKeyParts) :
         v # h_last.input =>
           build_key_from_mysql_key(key_copy(v, NumKeyParts), 2^NumKeyParts - 1).key
             # h_last.out

\* the steps of a read of the index
RdStep == rd' # rd

C31_SearchKeyParts ==
  h_last.fn = "build_key_from_mysql_key" =>
    LET used == IF MapBits(h_last.kpm) < NumKeyParts THEN MapBits(h_last.kpm)
                ELSE NumKeyParts
        part(i) == IF key_info[i] = "varchar" THEN h_last.input[i]
                   ELSE SubSeq(h_last.input[i], 1, key_part_length(key_info[i]))
    IN /\ Len(h_last.input) = used
       /\ h_last.out = IF used = 1 THEN part(1) ELSE part(1) \o part(2)
       /\ \A i \in 1..used :
            key_info[i] # "varchar" => Len(part(i)) = key_part_length(key_info[i])
       /\ h_last.full <=> used = NumKeyParts

\* C32: whenever index_next advances masstree_scan_stack_, the most recent
\* index_read_map of the handler positioned the stack, in the mode (forward,
\* reverse, prefix) index_next goes on in
C32_CursorProvenance ==
  [][(h_last'.op = "index_next") =>
       /\ h_last.stack_by = StackMode(h_last'.call)
       /\ masstree_scan_stack_.dir = StackMode(h_last'.call)]_vars

====
